---------------------------- MODULE Spec2Model ----------------------------
(***************************************************************************)
(* Statistics Helper: the statistics engine of the backend                 *)
(* (calculateStatistics, getMedian), the entry store behind /api/entries   *)
(* and the data-entry form (DataEntry.handleSubmit).                       *)
(*                                                                         *)
(* JavaScript numbers are modelled as exact extended rationals n/d:        *)
(*   d > 0          the finite value n/d, in lowest terms                  *)
(*   d = 0, n = 1   +Infinity                                              *)
(*   d = 0, n = -1  -Infinity                                              *)
(*   d = 0, n = 0   NaN                                                    *)
(* Rounding of doubles is not modelled; Infinity and NaN propagate as in   *)
(* IEEE 754.                                                               *)
(***************************************************************************)
EXTENDS Integers, Sequences, FiniteSets, TLC

\* ------------------------------------------------------------------ bounds
\* Longest record sequence handed to calculateStatistics.
MaxRecords == 3
\* Number of successive calculateStatistics calls on one input.
MaxCalls == 2
\* Number of entries the store may hold / ids it may assign.
MaxEntries == 2

\* Most fields the schema designer lists at a time.
MaxFields == 2

\* Most schemas created.
MaxSchemas == 1

\* Number of entries ever created through the entry endpoint alone.
MaxRows == 3

\* Number of fetchStatistics calls of one mounted StatisticalAnalysis.
MaxFetches == 4

VARIABLES
  fields,     \* calculateStatistics: the field list argument
  data,       \* calculateStatistics: the array of record data mappings
  stats,      \* the mapping returned by the latest calculateStatistics call
  prevStats,  \* the mapping returned by the call before it
  calls,      \* number of calculateStatistics calls made so far
  reordered,  \* TRUE once the caller has permuted the record sequence
  schemas,    \* prisma.schema: id -> parsed field list
  entries,    \* prisma.entry: set of stored rows [id, schemaId, data]
  nextId,     \* prisma.entry autoincrement
  schema,     \* DataEntry: the schema prop (an id of schemas)
  formData,   \* DataEntry: useState formData
  pending,    \* DataEntry: the body of the POST /api/entries in flight, or none
  alert,      \* the browser's modal alert() dialog: the message shown, or none
  typed,      \* DataEntry: what the user last typed into each field's input
  response,   \* the statistics endpoint's latest HTTP response
  reading,    \* the statistics handler under way: what findMany returned
  schemaName,    \* SchemaDesigner: useState schemaName
  designFields,  \* SchemaDesigner: useState fields
  newField,      \* SchemaDesigner: useState newField
  selectOptions, \* SchemaDesigner: useState selectOptions
  posting,       \* SchemaDesigner: the body of the POST /api/schemas in flight, or none
  created,       \* the schemas stored by POST /api/schemas, as [name, fields]
  statistics, \* StatisticalAnalysis: useState statistics
  loading,    \* StatisticalAnalysis: useState loading
  inflight,   \* StatisticalAnalysis: the statistics requests awaiting their response
  fetches     \* StatisticalAnalysis: number of fetchStatistics calls so far

vars == <<fields, data, stats, prevStats, calls, reordered,
          schemas, entries, nextId, schema, formData, pending, alert,
          typed, response, reading, schemaName, designFields, newField, selectOptions,
          posting, created, statistics, loading, inflight, fetches>>

\* ------------------------------------------------------- JavaScript numbers
Abs(i) == IF i < 0 THEN -i ELSE i

Sign(i) == IF i < 0 THEN -1 ELSE IF i > 0 THEN 1 ELSE 0

RECURSIVE Gcd(_, _)
Gcd(a, b) == IF b = 0 THEN a ELSE Gcd(b, a % b)

\* The number n/d with d > 0, in lowest terms.
Rat(n, d) ==
  LET g == Gcd(Abs(n), d)
  IN  [n |-> n \div g, d |-> d \div g]

FromInt(i) == [n |-> i, d |-> 1]

NaN == [n |-> 0, d |-> 0]

Infinity == [n |-> 1, d |-> 0]

NegInfinity == [n |-> -1, d |-> 0]

isNaN(x) == x.d = 0 /\ x.n = 0

IsFinite(x) == x.d > 0

\* -x
Neg(x) == [n |-> -x.n, d |-> x.d]

\* x + y
Add(x, y) ==
  IF isNaN(x) \/ isNaN(y) THEN NaN
  ELSE IF x.d = 0 /\ y.d = 0 THEN (IF x.n = y.n THEN x ELSE NaN)
  ELSE IF x.d = 0 THEN x
  ELSE IF y.d = 0 THEN y
  ELSE Rat(x.n * y.d + y.n * x.d, x.d * y.d)

\* x - y
Sub(x, y) == Add(x, Neg(y))

\* x * y
Mul(x, y) ==
  IF isNaN(x) \/ isNaN(y) THEN NaN
  ELSE IF x.d = 0 \/ y.d = 0
    THEN (IF x.n = 0 \/ y.n = 0 THEN NaN
          ELSE [n |-> Sign(x.n) * Sign(y.n), d |-> 0])
  ELSE Rat(x.n * y.n, x.d * y.d)

\* x / k for a positive integer k (an array length, or 2)
DivInt(x, k) == IF x.d = 0 THEN x ELSE Rat(x.n, x.d * k)

\* x < y; every comparison with NaN is false
Lt(x, y) ==
  IF isNaN(x) \/ isNaN(y) THEN FALSE
  ELSE IF x.d = 0 /\ y.d = 0 THEN x.n < y.n
  ELSE IF x.d = 0 THEN x.n < 0
  ELSE IF y.d = 0 THEN y.n > 0
  ELSE x.n * y.d < y.n * x.d

\* x <= y; every comparison with NaN is false
Leq(x, y) == ~isNaN(x) /\ ~isNaN(y) /\ ~Lt(y, x)

\* Math.pow(x, 2)
Square(x) == Mul(x, x)

\* ------------------------------------------------------- JavaScript values
\* A value of a parsed JSON mapping, or undefined for an absent key.
Undefined == [t |-> "undefined", v |-> NaN, s |-> <<>>]

Null == [t |-> "null", v |-> NaN, s |-> <<>>]

\* The number i.
Num(i) == [t |-> "number", v |-> FromInt(i), s |-> <<>>]

\* The string whose characters are the elements of s.
Str(s) == [t |-> "string", v |-> NaN, s |-> s]

Digits == <<"0", "1", "2", "3", "4", "5", "6", "7", "8", "9">>

IsDigit(c) == \E i \in 1..10 : Digits[i] = c

DigitVal(c) == (CHOOSE i \in 1..10 : Digits[i] = c) - 1

IsWhiteSpace(c) == c \in {" ", "\t", "\n"}

\* Number::toString of a non-negative integer
RECURSIVE NatToString(_)
NatToString(i) ==
  IF i < 10 THEN <<Digits[i + 1]>>
  ELSE Append(NatToString(i \div 10), Digits[(i % 10) + 1])

\* ToString(value) of ECMAScript, as parseFloat applies it to its argument
JSToString(x) ==
  CASE x.t = "undefined" -> <<"u", "n", "d", "e", "f", "i", "n", "e", "d">>
    [] x.t = "null" -> <<"n", "u", "l", "l">>
    [] x.t = "string" -> x.s
    [] x.t = "number" ->
         IF isNaN(x.v) THEN <<"N", "a", "N">>
         ELSE IF x.v.d = 0
           THEN (IF x.v.n < 0 THEN <<"-">> ELSE <<>>) \o
                <<"I", "n", "f", "i", "n", "i", "t", "y">>
         ELSE (IF x.v.n < 0 THEN <<"-">> ELSE <<>>) \o NatToString(Abs(x.v.n))

\* s without its leading white space
RECURSIVE TrimStart(_)
TrimStart(s) ==
  IF s # <<>> /\ IsWhiteSpace(Head(s)) THEN TrimStart(Tail(s)) ELSE s

\* TRUE iff p is a prefix of s
StartsWith(s, p) == Len(s) >= Len(p) /\ SubSeq(s, 1, Len(p)) = p

\* Length of the longest run of digits at the start of s
RECURSIVE DigitRun(_)
DigitRun(s) ==
  IF s # <<>> /\ IsDigit(Head(s)) THEN 1 + DigitRun(Tail(s)) ELSE 0

\* Value of the digit string s read as an integer, continuing from acc
RECURSIVE DigitsValue(_, _)
DigitsValue(s, acc) ==
  IF s = <<>> THEN acc
  ELSE DigitsValue(Tail(s), 10 * acc + DigitVal(Head(s)))

RECURSIVE Pow10(_)
Pow10(k) == IF k = 0 THEN 1 ELSE 10 * Pow10(k - 1)

\* The longest prefix of s that is an unsigned StrDecimalLiteral
\* (Infinity | digits [. digits] | . digits; exponents are not modelled),
\* as a number, or NaN when there is none.
ParseUnsigned(s) ==
  IF StartsWith(s, <<"I", "n", "f", "i", "n", "i", "t", "y">>) THEN Infinity
  ELSE
    LET ni   == DigitRun(s)
        rest == SubSeq(s, ni + 1, Len(s))
        nf   == IF rest # <<>> /\ Head(rest) = "." THEN DigitRun(Tail(rest)) ELSE 0
        ip   == DigitsValue(SubSeq(s, 1, ni), 0)
        fp   == DigitsValue(SubSeq(s, ni + 2, ni + 1 + nf), 0)
    IN  IF ni = 0 /\ nf = 0 THEN NaN
        ELSE Rat(ip * Pow10(nf) + fp, Pow10(nf))

\* parseFloat(x)
parseFloat(x) ==
  LET s == TrimStart(JSToString(x))
  IN  IF s # <<>> /\ Head(s) = "-" THEN Neg(ParseUnsigned(Tail(s)))
      ELSE IF s # <<>> /\ Head(s) = "+" THEN ParseUnsigned(Tail(s))
      ELSE ParseUnsigned(s)

\* --------------------------------------------------------- field lists, records
\* A field descriptor (interface Field).
Field(name, type, required, options) ==
  [name |-> name, type |-> type, required |-> required, options |-> options]

\* item[name]: the value under key name, undefined when the key is absent
ItemValue(item, name) == IF name \in DOMAIN item THEN item[name] ELSE Undefined

\* The mapping without keys.
EmptyMap == [k \in {} |-> 0]

\* m[k] = v
Put(m, k, v) == [x \in DOMAIN m \cup {k} |-> IF x = k THEN v ELSE m[x]]

\* --------------------------------------------------------- calculateStatistics
\* A type test that lets every field through.
IsNumberField_Any(field) == TRUE

\* field.type === 'number'
IsNumberField(field) == field.type = "number"

\* A map that turns an unparsable value into 0: parseFloat(item[field.name]) || 0
MapParse_OrZero(d, name) ==
  [i \in 1..Len(d) |->
     IF isNaN(parseFloat(ItemValue(d[i], name))) THEN FromInt(0)
     ELSE parseFloat(ItemValue(d[i], name))]

\* data.map(item => parseFloat(item[field.name]))
MapParse(d, name) == [i \in 1..Len(d) |-> parseFloat(ItemValue(d[i], name))]

\* A filter that forgets the isNaN test: v !== null && v !== undefined
KeepValue_NoNaNTest(v) == TRUE

\* The filter's test: !isNaN(v) && v !== null && v !== undefined. v is always a
\* number here, so the last two conjuncts are true.
KeepValue(v) == ~isNaN(v)

\* The comparator (a, b) => a - b
CompareFn(a, b) == Sub(a, b)

\* Array.prototype.sort's reading of a comparator result: NaN counts as +0
SortOrder(c) == IF isNaN(c) THEN 0 ELSE Sign(c.n)

\* x inserted into the sorted sequence s, after the elements it does not precede
RECURSIVE InsertSorted(_, _)
InsertSorted(s, x) ==
  IF s = <<>> THEN <<x>>
  ELSE IF SortOrder(CompareFn(x, Head(s))) < 0 THEN <<x>> \o s
  ELSE <<Head(s)>> \o InsertSorted(Tail(s), x)

RECURSIVE InsertionSort(_, _)
InsertionSort(s, acc) ==
  IF s = <<>> THEN acc ELSE InsertionSort(Tail(s), InsertSorted(acc, Head(s)))

\* The sort left out: the values stay in record order.
SortValues_None(values) == values

\* values.sort((a, b) => a - b): the array after the in-place sort
SortValues(values) == InsertionSort(values, <<>>)

\* values.reduce((a, b) => a + b, 0)
RECURSIVE Sum(_, _)
Sum(s, acc) == IF s = <<>> THEN acc ELSE Sum(Tail(s), Add(acc, Head(s)))

\* values.reduce((a, b) => a + b, 0) / values.length
Mean(values) == DivInt(Sum(values, FromInt(0)), Len(values))

\* values.reduce((a, b) => a + Math.pow(b - mean, 2), 0)
RECURSIVE SumSquaredDev(_, _, _)
SumSquaredDev(s, mean, acc) ==
  IF s = <<>> THEN acc
  ELSE SumSquaredDev(Tail(s), mean, Add(acc, Square(Sub(Head(s), mean))))

\* The sample variance: the divisor is values.length - 1 (1 for a single value)
Variance_Sample(values, mean) ==
  DivInt(SumSquaredDev(values, mean, FromInt(0)),
         IF Len(values) > 1 THEN Len(values) - 1 ELSE 1)

\* values.reduce((a, b) => a + Math.pow(b - mean, 2), 0) / values.length
Variance(values, mean) == DivInt(SumSquaredDev(values, mean, FromInt(0)), Len(values))

\* Math.min(...values)
RECURSIVE MathMin(_, _)
MathMin(s, acc) ==
  IF s = <<>> THEN acc
  ELSE IF isNaN(Head(s)) \/ isNaN(acc) THEN MathMin(Tail(s), NaN)
  ELSE MathMin(Tail(s), IF Lt(Head(s), acc) THEN Head(s) ELSE acc)

\* Math.max(...values)
RECURSIVE MathMax(_, _)
MathMax(s, acc) ==
  IF s = <<>> THEN acc
  ELSE IF isNaN(Head(s)) \/ isNaN(acc) THEN MathMax(Tail(s), NaN)
  ELSE MathMax(Tail(s), IF Lt(acc, Head(s)) THEN Head(s) ELSE acc)

\* Math.sqrt(x), kept symbolic: no claim depends on its value
MathSqrt(x) == [sqrtOf |-> x]

\* A median that takes sortedValues[mid] whatever the parity of the length
getMedian_UpperMiddle(sortedValues) == sortedValues[(Len(sortedValues) \div 2) + 1]

\* getMedian(sortedValues); index i of the code is index i + 1 here
getMedian(sortedValues) ==
  LET mid == Len(sortedValues) \div 2
  IN  IF Len(sortedValues) % 2 # 0
        THEN sortedValues[mid + 1]
        ELSE DivInt(Add(sortedValues[mid], sortedValues[mid + 1]), 2)

\* The filtered values of one field: map, then filter
FieldValues(d, name) == SelectSeq(MapParse(d, name), KeepValue)

\* The summary object built for one field from its filtered values.
\* sort works in place, so values and sortedValues are the same sorted array
\* by the time mean, variance, min and max read it.
FieldSummary(filtered) ==
  LET sortedValues == SortValues(filtered)
      values       == sortedValues
      mean         == Mean(values)
      variance     == Variance(values, mean)
  IN  [count             |-> Len(values),
       mean              |-> mean,
       median            |-> getMedian(sortedValues),
       min               |-> MathMin(values, Infinity),
       max               |-> MathMax(values, NegInfinity),
       standardDeviation |-> MathSqrt(variance),
       variance          |-> variance]

\* The body of fields.forEach for one field, on the stats object so far
StatsStep(acc, d, field) ==
  IF IsNumberField(field)
    THEN LET values == FieldValues(d, field.name)
         IN  IF Len(values) > 0
               THEN Put(acc, field.name, FieldSummary(values))
               ELSE acc
    ELSE acc

RECURSIVE ForEachField(_, _, _)
ForEachField(fs, d, acc) ==
  IF fs = <<>> THEN acc
  ELSE ForEachField(Tail(fs), d, StatsStep(acc, d, Head(fs)))

\* calculateStatistics(data, fields): the returned stats object
calculateStatistics(d, fs) == ForEachField(fs, d, EmptyMap)

\* A call that coerces in place: item[field.name] = parseFloat(item[field.name])
\* for every number field.
DataAfterCall_CoercedInPlace(d, fs) ==
  LET names == { fs[i].name : i \in { j \in 1..Len(fs) : fs[j].type = "number" } }
  IN  [i \in 1..Len(d) |->
         [k \in DOMAIN d[i] \cup names |->
            IF k \in names
              THEN [t |-> "number", v |-> parseFloat(ItemValue(d[i], k)), s |-> <<>>]
              ELSE d[i][k]]]

\* The data array as the call leaves it: map and filter build new arrays and
\* the sort acts on that copy, so the argument keeps its items and their order.
DataAfterCall(d, fs) == d


\* ------------------------------------------------- inputs of the statistics engine
\* Field lists as JSON.parse(schema.fields) yields them.
FieldLists ==
  { <<>>,
    <<Field("a", "number", TRUE, <<>>)>>,
    <<Field("a", "text", FALSE, <<>>)>>,
    <<Field("a", "number", TRUE, <<>>), Field("b", "number", FALSE, <<>>)>>,
    <<Field("b", "select", TRUE, <<<<"l", "o", "w">>, <<"h", "i", "g", "h">>>>), Field("a", "number", FALSE, <<>>)>>,
    <<Field("a", "date", FALSE, <<>>), Field("b", "text", TRUE, <<>>)>> }

\* Record data mappings as JSON.parse(entry.data) yields them.
TestRecords ==
  { EmptyMap,
    Put(EmptyMap, "a", Num(-1)),
    Put(Put(EmptyMap, "a", Num(2)), "b", Num(7)),
    Put(EmptyMap, "a", Str(<<"3", "p", "x">>)),
    Put(Put(EmptyMap, "a", Str(<<"1", "0">>)), "b", Str(<<"o", "o", "p", "s">>)),
    Put(EmptyMap, "a", Str(<<"o", "o", "p", "s">>)),
    Put(EmptyMap, "a", Str(<<"I", "n", "f", "i", "n", "i", "t", "y">>)),
    Put(EmptyMap, "b", Str(<<"-", "4">>)) }

\* All sequences over S of length at most n
SeqsUpTo(S, n) == UNION { [1..k -> S] : k \in 0..n }

\* s with its items rearranged by the permutation p of 1..Len(s)
Rearranged(s, p) == [i \in 1..Len(s) |-> s[p[i]]]

\* The rearrangements of s
PermutationsOf(s) ==
  { Rearranged(s, p) :
      p \in { q \in [1..Len(s) -> 1..Len(s)] :
                \A i, j \in 1..Len(s) : q[i] = q[j] => i = j } }

\* ------------------------------------------------- the statistics engine, called
\* No request in flight.
NoRequest == [schemaId |-> 0, data |-> EmptyMap]

\* No alert() dialog open.
NoAlert == [kind |-> "none", field |-> ""]

\* No HTTP response produced yet.
NoResponse == [kind |-> "none", id |-> 0, status |-> 0, body |-> EmptyMap]

\* No statistics request under way.  table is the entry table as findMany
\* saw it, kept for reference.
NoReading == [open |-> FALSE, id |-> 0, rows |-> <<>>, table |-> {}]

\* SchemaDesigner: the initial newField, also what addField resets it to.
BlankField == [name |-> "", type |-> "text", required |-> FALSE]

\* SchemaDesigner: no POST /api/schemas in flight (loading is false).
NoPosting == [name |-> "", fields |-> <<>>]

\* The components and the response channel before anything has happened.
UiIdle ==
  /\ typed = EmptyMap
  /\ response = NoResponse
  /\ reading = NoReading
  /\ schemaName = ""
  /\ designFields = <<>>
  /\ newField = BlankField
  /\ selectOptions = <<>>
  /\ posting = NoPosting
  /\ created = <<>>
  /\ statistics = EmptyMap
  /\ loading = FALSE
  /\ inflight = {}
  /\ fetches = 0

designerVars == <<schemaName, designFields, newField, selectOptions, posting, created>>

analysisVars == <<statistics, loading, inflight, fetches>>

uiVars == <<typed, response, reading, schemaName, designFields, newField, selectOptions,
            posting, created, statistics, loading, inflight, fetches>>

StoreIdle ==
  /\ schemas = <<>>
  /\ entries = {}
  /\ nextId = 1
  /\ schema = 0
  /\ formData = EmptyMap
  /\ pending = NoRequest
  /\ alert = NoAlert

storeVars == <<schemas, entries, nextId, schema, formData, pending, alert>>

statsVars == <<fields, data, stats, prevStats, calls, reordered>>

InitStats ==
  /\ fields \in FieldLists
  /\ data \in SeqsUpTo(TestRecords, MaxRecords)
  /\ stats = EmptyMap
  /\ prevStats = EmptyMap
  /\ calls = 0
  /\ reordered = FALSE
  /\ StoreIdle
  /\ UiIdle

\* A call calculateStatistics(data, fields); the caller keeps the result.
CallCalculateStatistics ==
  /\ calls < MaxCalls
  /\ stats' = calculateStatistics(data, fields)
  /\ prevStats' = stats
  /\ calls' = calls + 1
  /\ data' = DataAfterCall(data, fields)
  /\ UNCHANGED <<fields, reordered>>
  /\ UNCHANGED storeVars
  /\ UNCHANGED uiVars

\* Between two calls the caller's record sequence comes back in another order
\* (findMany states no order).
Reorder ==
  /\ calls >= 1
  /\ calls < MaxCalls
  /\ ~reordered
  /\ \E d \in PermutationsOf(data) : d # data /\ data' = d
  /\ reordered' = TRUE
  /\ UNCHANGED <<fields, stats, prevStats, calls>>
  /\ UNCHANGED storeVars
  /\ UNCHANGED uiVars

NextStats == CallCalculateStatistics \/ Reorder

SpecStats == InitStats /\ [][NextStats]_vars


\* ------------------------------------------------- the entry store and the entry form
\* JavaScript truthiness, as !formData[field.name] and x || '' read it
Truthy(x) ==
  CASE x.t = "undefined" -> FALSE
    [] x.t = "null" -> FALSE
    [] x.t = "number" -> ~isNaN(x.v) /\ x.v.n # 0
    [] x.t = "string" -> x.s # <<>>

\* The number v as a value.
NumVal(v) == [t |-> "number", v |-> v, s |-> <<>>]

\* JSON.parse(JSON.stringify(m)): keys holding undefined are dropped, numbers
\* that are not finite become null.
JSONRoundTrip(m) ==
  [k \in { x \in DOMAIN m : m[x].t # "undefined" } |->
     IF m[k].t = "number" /\ ~IsFinite(m[k].v) THEN Null ELSE m[k]]

\* The schemas in the store, by id, as their parsed field lists.
StoredSchemas ==
  << <<Field("a", "number", TRUE, <<>>), Field("b", "text", TRUE, <<>>)>>,
     <<Field("b", "select", TRUE, <<<<"l", "o", "w">>, <<"h", "i", "g", "h">>>>), Field("a", "number", FALSE, <<>>)>> >>

\* What the user can put into the input element rendered for a field
\* (e.target.value).
TypedTexts(field) ==
  CASE field.type = "number" -> { <<"0">>, <<"7">> }
    [] field.type = "select" -> { <<>> } \cup { field.options[i] : i \in 1..Len(field.options) }
    [] field.type = "text" -> { <<"x">> }
    [] field.type = "date" -> { <<"2", "0", "2", "4", "-", "0", "1", "-", "0", "1">> }

\* The value renderField's onChange hands to handleInputChange:
\* parseFloat(e.target.value) || '' for a number field, e.target.value otherwise
ChangedValue(field, text) ==
  IF field.type = "number"
    THEN (IF Truthy(NumVal(parseFloat(Str(text)))) THEN NumVal(parseFloat(Str(text)))
          ELSE Str(<<>>))
    ELSE Str(text)

\* A check that forgets the required flag: !formData[field.name]
RequiredFails_AnyField(field, fd) == ~Truthy(ItemValue(fd, field.name))

\* field.required && !formData[field.name]
RequiredFails(field, fd) == field.required /\ ~Truthy(ItemValue(fd, field.name))

\* The for loop of handleSubmit: the index of the first field that fails, from
\* index i on, or 0 when none does
RECURSIVE FirstFailure(_, _, _)
FirstFailure(fs, fd, i) ==
  IF i > Len(fs) THEN 0
  ELSE IF RequiredFails(fs[i], fd) THEN i
  ELSE FirstFailure(fs, fd, i + 1)

\* Bodies sent to POST /api/entries by a client other than the form.
DirectBodies == { Put(EmptyMap, "b", Str(<<"m", "e", "d", "i", "u", "m">>)) }

\* Schema ids such a client may name; 3 names no schema.
DirectSchemaIds == {1, 2, 3}

\* prisma.entry.create: the rows after storing data for schema sid
CreateEntry(rows, id, sid, body) ==
  rows \cup { [id |-> id, schemaId |-> sid, data |-> JSONRoundTrip(body)] }

InitEntries ==
  /\ fields = <<>>
  /\ data = <<>>
  /\ stats = EmptyMap
  /\ prevStats = EmptyMap
  /\ calls = 0
  /\ reordered = FALSE
  /\ schemas = StoredSchemas
  /\ entries = {}
  /\ nextId = 1
  /\ schema = 1
  /\ formData = EmptyMap
  /\ pending = NoRequest
  /\ alert = NoAlert
  /\ UiIdle

\* App: the schema dropdown's onChange; DataEntry keeps its formData.
SelectSchema ==
  /\ alert = NoAlert
  /\ \E id \in DOMAIN schemas : id # schema /\ schema' = id
  /\ UNCHANGED <<schemas, entries, nextId, formData, pending, alert>>
  /\ UNCHANGED statsVars
  /\ UNCHANGED uiVars

\* DataEntry.handleInputChange, called by the onChange of a rendered field;
\* typed records e.target.value, the text the user entered
handleInputChange ==
  /\ alert = NoAlert
  /\ \E i \in 1..Len(schemas[schema]) :
       \E text \in TypedTexts(schemas[schema][i]) :
         /\ formData' = Put(formData, schemas[schema][i].name,
                            ChangedValue(schemas[schema][i], text))
         /\ typed' = Put(typed, schemas[schema][i].name, text)
  /\ UNCHANGED <<schemas, entries, nextId, schema, pending, alert>>
  /\ UNCHANGED statsVars
  /\ UNCHANGED <<response, reading, designerVars, analysisVars>>

\* DataEntry.handleSubmit up to its await: the required check, then the POST.
\* The submit button is disabled while a request is in flight.
handleSubmit ==
  /\ alert = NoAlert
  /\ pending = NoRequest
  /\ LET fs == schemas[schema]
         i  == FirstFailure(fs, formData, 1)
     IN  IF i # 0
           THEN /\ alert' = [kind |-> "required", field |-> fs[i].name]
                /\ UNCHANGED pending
           ELSE /\ pending' = [schemaId |-> schema, data |-> formData]
                /\ UNCHANGED alert
  /\ UNCHANGED <<schemas, entries, nextId, schema, formData>>
  /\ UNCHANGED statsVars
  /\ UNCHANGED uiVars

\* POST /api/entries stores the form's request; handleSubmit resumes:
\* setFormData({}), alert('Entry added successfully!'), setLoading(false).
\* The inputs show formData, so they are empty again.
PostResolves ==
  /\ pending # NoRequest
  /\ nextId <= MaxEntries
  /\ entries' = CreateEntry(entries, nextId, pending.schemaId, pending.data)
  /\ nextId' = nextId + 1
  /\ formData' = EmptyMap
  /\ typed' = EmptyMap
  /\ alert' = [kind |-> "added", field |-> ""]
  /\ pending' = NoRequest
  /\ UNCHANGED <<schemas, schema>>
  /\ UNCHANGED statsVars
  /\ UNCHANGED <<response, reading, designerVars, analysisVars>>

\* The form's request fails (prisma throws, status 500); handleSubmit's catch:
\* alert('Error adding entry'), setLoading(false).
PostRejects ==
  /\ pending # NoRequest
  /\ alert' = [kind |-> "error", field |-> ""]
  /\ pending' = NoRequest
  /\ UNCHANGED <<schemas, entries, nextId, schema, formData>>
  /\ UNCHANGED statsVars
  /\ UNCHANGED uiVars

\* The user closes the alert() dialog.
DismissAlert ==
  /\ alert # NoAlert
  /\ alert' = NoAlert
  /\ UNCHANGED <<schemas, entries, nextId, schema, formData, pending>>
  /\ UNCHANGED statsVars
  /\ UNCHANGED uiVars

\* POST /api/entries from any other client: the body is stored as it comes;
\* a schemaId that names no schema violates the relation: status 500, nothing
\* stored.
PostEntry ==
  /\ \E sid \in DirectSchemaIds : \E body \in DirectBodies :
       IF sid \in DOMAIN schemas /\ nextId <= MaxEntries
         THEN /\ entries' = CreateEntry(entries, nextId, sid, body)
              /\ nextId' = nextId + 1
         ELSE UNCHANGED <<entries, nextId>>
  /\ UNCHANGED <<schemas, schema, formData, pending, alert>>
  /\ UNCHANGED statsVars
  /\ UNCHANGED uiVars

\* DELETE /api/entries/:id; prisma.entry.delete throws when no row has the id
\* (status 500, nothing deleted).
DeleteEntry ==
  /\ \E id \in 1..MaxEntries :
       IF \E e \in entries : e.id = id
         THEN entries' = { e \in entries : e.id # id }
         ELSE UNCHANGED entries
  /\ UNCHANGED <<schemas, nextId, schema, formData, pending, alert>>
  /\ UNCHANGED statsVars
  /\ UNCHANGED uiVars

NextEntries ==
  \/ SelectSchema
  \/ handleInputChange
  \/ handleSubmit
  \/ PostResolves
  \/ PostRejects
  \/ DismissAlert
  \/ PostEntry
  \/ DeleteEntry

SpecEntries == InitEntries /\ [][NextEntries]_vars

\* ------------------------------------------------------------ the schema designer
\* s.indexOf(','): the position of the first comma of s, 0 when there is none
RECURSIVE CommaAt(_, _)
CommaAt(s, i) ==
  IF i > Len(s) THEN 0
  ELSE IF s[i] = "," THEN i
  ELSE CommaAt(s, i + 1)

\* s.split(','): always at least one piece, ''.split(',') is ['']
RECURSIVE Split(_)
Split(s) ==
  LET c == CommaAt(s, 1)
  IN  IF c = 0 THEN <<s>>
      ELSE <<SubSeq(s, 1, c - 1)>> \o Split(SubSeq(s, c + 1, Len(s)))

\* String.prototype.trimEnd
RECURSIVE TrimEnd(_)
TrimEnd(s) ==
  IF s # <<>> /\ IsWhiteSpace(s[Len(s)]) THEN TrimEnd(SubSeq(s, 1, Len(s) - 1)) ELSE s

\* String.prototype.trim
Trim(s) == TrimEnd(TrimStart(s))

\* selectOptions.split(',').map(opt => opt.trim()).filter(opt => opt)
ParseOptions(text) ==
  SelectSeq([i \in 1..Len(Split(text)) |-> Trim(Split(text)[i])], LAMBDA opt : opt # <<>>)

\* addField's new descriptor: { ...newField }, with options only for a select
NewDescriptor(nf, text) ==
  IF nf.type = "select"
    THEN [name |-> nf.name, type |-> nf.type, required |-> nf.required,
          options |-> ParseOptions(text)]
    ELSE nf

\* fields.filter((_, i) => i !== index), index counted from 1 here
WithoutIndex(fs, index) ==
  [i \in 1..(Len(fs) - 1) |-> IF i < index THEN fs[i] ELSE fs[i + 1]]

\* What the user may type as a schema name.
SchemaNames == { "", "S" }

\* What the user may type as a field name.
FieldNames == { "", "a" }

\* The <option>s of the field type dropdown.
FieldTypes == { "text", "number", "date", "select" }

\* What the user may type into the options input: nothing, or ' x,, y'.
OptionTexts == { <<>>, <<" ", "x", ",", ",", " ", "y">> }

InitDesigner ==
  /\ fields = <<>>
  /\ data = <<>>
  /\ stats = EmptyMap
  /\ prevStats = EmptyMap
  /\ calls = 0
  /\ reordered = FALSE
  /\ StoreIdle
  /\ UiIdle

\* onChange of the schema name input: setSchemaName(e.target.value)
setSchemaName ==
  /\ \E text \in SchemaNames : text # schemaName /\ schemaName' = text
  /\ UNCHANGED <<designFields, newField, selectOptions, posting, created>>
  /\ UNCHANGED <<statsVars, storeVars, typed, response, reading, analysisVars>>

\* onChange of the field name input: setNewField({ ...newField, name })
setNewFieldName ==
  /\ \E text \in FieldNames :
       text # newField.name /\ newField' = [newField EXCEPT !.name = text]
  /\ UNCHANGED <<schemaName, designFields, selectOptions, posting, created>>
  /\ UNCHANGED <<statsVars, storeVars, typed, response, reading, analysisVars>>

\* onChange of the type dropdown: setNewField({ ...newField, type })
setNewFieldType ==
  /\ \E type \in FieldTypes :
       type # newField.type /\ newField' = [newField EXCEPT !.type = type]
  /\ UNCHANGED <<schemaName, designFields, selectOptions, posting, created>>
  /\ UNCHANGED <<statsVars, storeVars, typed, response, reading, analysisVars>>

\* onChange of the required checkbox: setNewField({ ...newField, required })
setNewFieldRequired ==
  /\ newField' = [newField EXCEPT !.required = ~newField.required]
  /\ UNCHANGED <<schemaName, designFields, selectOptions, posting, created>>
  /\ UNCHANGED <<statsVars, storeVars, typed, response, reading, analysisVars>>

\* onChange of the options input, rendered only while the type is select
setSelectOptions ==
  /\ newField.type = "select"
  /\ \E text \in OptionTexts : text # selectOptions /\ selectOptions' = text
  /\ UNCHANGED <<schemaName, designFields, newField, posting, created>>
  /\ UNCHANGED <<statsVars, storeVars, typed, response, reading, analysisVars>>

\* SchemaDesigner.addField
addField ==
  /\ newField.name # ""
  /\ Len(designFields) < MaxFields
  /\ designFields' = Append(designFields, NewDescriptor(newField, selectOptions))
  /\ newField' = BlankField
  /\ selectOptions' = <<>>
  /\ UNCHANGED <<schemaName, posting, created>>
  /\ UNCHANGED <<statsVars, storeVars, typed, response, reading, analysisVars>>

\* SchemaDesigner.removeField, from the Remove button of a listed field
removeField ==
  /\ \E index \in 1..Len(designFields) :
       designFields' = WithoutIndex(designFields, index)
  /\ UNCHANGED <<schemaName, newField, selectOptions, posting, created>>
  /\ UNCHANGED <<statsVars, storeVars, typed, response, reading, analysisVars>>

\* SchemaDesigner.createSchema up to its await: the guard, setLoading(true),
\* the POST with the name and the fields of this render.  The button is
\* disabled while loading.
createSchema ==
  /\ schemaName # ""
  /\ Len(designFields) # 0
  /\ posting = NoPosting
  /\ Len(created) < MaxSchemas
  /\ posting' = [name |-> schemaName, fields |-> designFields]
  /\ UNCHANGED <<schemaName, designFields, newField, selectOptions, created>>
  /\ UNCHANGED <<statsVars, storeVars, typed, response, reading, analysisVars>>

\* POST /api/schemas stores name and fields as they come; createSchema
\* resumes: setSchemaName(''), setFields([]), setLoading(false).  Its alert()
\* dialogs hold no state.
CreateResolves ==
  /\ posting # NoPosting
  /\ created' = Append(created, posting)
  /\ schemaName' = ""
  /\ designFields' = <<>>
  /\ posting' = NoPosting
  /\ UNCHANGED <<newField, selectOptions>>
  /\ UNCHANGED <<statsVars, storeVars, typed, response, reading, analysisVars>>

\* The request fails (prisma throws, status 500); createSchema's catch and
\* finally: setLoading(false), name and fields kept.
CreateRejects ==
  /\ posting # NoPosting
  /\ posting' = NoPosting
  /\ UNCHANGED <<schemaName, designFields, newField, selectOptions, created>>
  /\ UNCHANGED <<statsVars, storeVars, typed, response, reading, analysisVars>>

NextDesigner ==
  \/ setSchemaName
  \/ setNewFieldName
  \/ setNewFieldType
  \/ setNewFieldRequired
  \/ setSelectOptions
  \/ addField
  \/ removeField
  \/ createSchema
  \/ CreateResolves
  \/ CreateRejects

SpecDesigner == InitDesigner /\ [][NextDesigner]_vars

\* --------------------------------------------------------- the statistics endpoint
\* A findMany that forgets its where clause: every row of the table
RowsOf_All(table, id) == table

\* prisma.entry.findMany({ where: { schemaId: id } })
RowsOf(table, id) == { e \in table : e.schemaId = id }

\* The orders in which findMany, given no orderBy, may return the rows
RowOrders(rows) ==
  { q \in [1..Cardinality(rows) -> rows] :
      \A i, j \in 1..Cardinality(rows) : q[i] = q[j] => i = j }

\* The handler without its test of the schema: no schema, no fields
StatisticsOutcome_NoSchemaTest(rows, id, schs) ==
  [kind |-> "statistics", id |-> id, status |-> 200,
   body |-> IF id \in DOMAIN schs
              THEN calculateStatistics([i \in 1..Len(rows) |-> rows[i].data], schs[id])
              ELSE EmptyMap]

\* The handler after its two queries: 404 when findUnique found no schema,
\* else calculateStatistics(entries.map(parse of data), parse of schema.fields)
StatisticsOutcome(rows, id, schs) ==
  IF id \notin DOMAIN schs
    THEN [kind |-> "statistics", id |-> id, status |-> 404,
          body |-> [error |-> "Schema not found"]]
    ELSE [kind |-> "statistics", id |-> id, status |-> 200,
          body |-> calculateStatistics([i \in 1..Len(rows) |-> rows[i].data], schs[id])]

\* Bodies of POST /api/entries that carry numbers: the k-th request sends
\* { a: k, b: 'low' }.
ServerBodies(k) == { Put(Put(EmptyMap, "a", Num(k)), "b", Str(<<"l", "o", "w">>)) }

InitServer ==
  /\ fields = <<>>
  /\ data = <<>>
  /\ stats = EmptyMap
  /\ prevStats = EmptyMap
  /\ calls = 0
  /\ reordered = FALSE
  /\ schemas = StoredSchemas
  /\ entries = {}
  /\ nextId = 1
  /\ schema = 0
  /\ formData = EmptyMap
  /\ pending = NoRequest
  /\ alert = NoAlert
  /\ UiIdle

\* POST /api/entries: a schemaId that names no schema violates the relation
\* (status 500, nothing stored).
ApiPostEntry ==
  /\ nextId <= MaxRows
  /\ \E sid \in DirectSchemaIds : \E body \in ServerBodies(nextId) :
       IF sid \in DOMAIN schemas
         THEN /\ entries' = CreateEntry(entries, nextId, sid, body)
              /\ nextId' = nextId + 1
         ELSE UNCHANGED <<entries, nextId>>
  /\ UNCHANGED <<schemas, schema, formData, pending, alert>>
  /\ UNCHANGED statsVars
  /\ UNCHANGED uiVars

\* DELETE /api/entries/:id of a stored entry.
ApiDeleteEntry ==
  /\ \E e \in entries : entries' = entries \ {e}
  /\ UNCHANGED <<schemas, nextId, schema, formData, pending, alert>>
  /\ UNCHANGED statsVars
  /\ UNCHANGED uiVars

\* GET /api/schemas/:id/statistics up to its second await: findMany has
\* returned the rows of the schema.
ApiStatisticsFindMany ==
  /\ ~reading.open
  /\ \E id \in DirectSchemaIds : \E rows \in RowOrders(RowsOf(entries, id)) :
       reading' = [open |-> TRUE, id |-> id, rows |-> rows, table |-> entries]
  /\ UNCHANGED <<typed, response, designerVars, analysisVars>>
  /\ UNCHANGED statsVars
  /\ UNCHANGED storeVars

\* GET /api/schemas/:id/statistics from findUnique to the response.
ApiStatisticsResponds ==
  /\ reading.open
  /\ response' = StatisticsOutcome(reading.rows, reading.id, schemas)
  /\ reading' = [reading EXCEPT !.open = FALSE, !.rows = <<>>]
  /\ UNCHANGED <<typed, designerVars, analysisVars>>
  /\ UNCHANGED statsVars
  /\ UNCHANGED storeVars

NextServer ==
  \/ ApiPostEntry
  \/ ApiDeleteEntry
  \/ ApiStatisticsFindMany
  \/ ApiStatisticsResponds

SpecServer == InitServer /\ [][NextServer]_vars

\* ------------------------------------------------------- StatisticalAnalysis
\* The entries in the store while the component is watched: { a: 1 } for
\* schema 1 and { a: 4 } for schema 2.
AnalysisEntries ==
  CreateEntry(CreateEntry({}, 1, 1, Put(EmptyMap, "a", Num(1))),
              2, 2, Put(EmptyMap, "a", Num(4)))

\* response.data of a successful GET /api/schemas/${id}/statistics
ResponseData(id) ==
  StatisticsOutcome(CHOOSE rows \in RowOrders(RowsOf(entries, id)) : TRUE,
                    id, schemas).body

InitAnalysis ==
  /\ fields = <<>>
  /\ data = <<>>
  /\ stats = EmptyMap
  /\ prevStats = EmptyMap
  /\ calls = 0
  /\ reordered = FALSE
  /\ schemas = StoredSchemas
  /\ entries = AnalysisEntries
  /\ nextId = 3
  /\ schema \in DOMAIN schemas
  /\ formData = EmptyMap
  /\ pending = NoRequest
  /\ alert = NoAlert
  /\ UiIdle

\* The component mounts: useEffect calls fetchStatistics, which runs up to
\* its await: setLoading(true), axios.get for the schema.id of this render.
MountEffect ==
  /\ fetches = 0
  /\ loading' = TRUE
  /\ inflight' = inflight \cup { [seq |-> 1, id |-> schema] }
  /\ fetches' = 1
  /\ UNCHANGED statistics
  /\ UNCHANGED <<typed, response, reading, designerVars>>
  /\ UNCHANGED statsVars
  /\ UNCHANGED storeVars

\* App's dropdown selects another schema while the component is mounted: it
\* renders with the new prop and keeps its state; schema.id changed, so the
\* effect calls fetchStatistics again.
ChangeSchema ==
  /\ fetches >= 1
  /\ fetches < MaxFetches
  /\ \E id \in DOMAIN schemas :
       /\ id # schema
       /\ schema' = id
       /\ inflight' = inflight \cup { [seq |-> fetches + 1, id |-> id] }
  /\ loading' = TRUE
  /\ fetches' = fetches + 1
  /\ UNCHANGED statistics
  /\ UNCHANGED <<typed, response, reading, designerVars>>
  /\ UNCHANGED statsVars
  /\ UNCHANGED <<schemas, entries, nextId, formData, pending, alert>>

\* A request is answered with status 200; its fetchStatistics resumes:
\* setStatistics(response.data), then finally setLoading(false).
ResponseArrives ==
  /\ \E r \in inflight :
       /\ statistics' = ResponseData(r.id)
       /\ inflight' = inflight \ {r}
  /\ loading' = FALSE
  /\ UNCHANGED fetches
  /\ UNCHANGED <<typed, response, reading, designerVars>>
  /\ UNCHANGED statsVars
  /\ UNCHANGED storeVars

\* A request fails (network error or an error status); its fetchStatistics
\* resumes in catch: console.error, then finally setLoading(false).
RequestFails ==
  /\ \E r \in inflight : inflight' = inflight \ {r}
  /\ loading' = FALSE
  /\ UNCHANGED <<statistics, fetches>>
  /\ UNCHANGED <<typed, response, reading, designerVars>>
  /\ UNCHANGED statsVars
  /\ UNCHANGED storeVars

NextAnalysis ==
  \/ MountEffect
  \/ ChangeSchema
  \/ ResponseArrives
  \/ RequestFails

SpecAnalysis == InitAnalysis /\ [][NextAnalysis]_vars




\* ------------------------------------------------- properties of the statistics engine
\* A raw value from which a number can be read: a number, or a string that
\* starts (after white space and one sign) with a digit, with a point and a
\* digit, or with Infinity.
UsableString(str) ==
  LET t == TrimStart(str)
      u == IF t # <<>> /\ Head(t) \in {"+", "-"} THEN Tail(t) ELSE t
  IN  /\ u # <<>>
      /\ \/ IsDigit(Head(u))
         \/ Head(u) = "." /\ Len(u) >= 2 /\ IsDigit(u[2])
         \/ StartsWith(u, <<"I", "n", "f", "i", "n", "i", "t", "y">>)

Usable(x) ==
  \/ x.t = "number" /\ ~isNaN(x.v)
  \/ x.t = "string" /\ UsableString(x.s)

\* The indices of the records with a usable value under key name
UsableAt(d, name) == { i \in 1..Len(d) : Usable(ItemValue(d[i], name)) }

\* The records of d with a usable value under key name, in order
RECURSIVE UsableRecords(_, _)
UsableRecords(d, name) ==
  IF d = <<>> THEN <<>>
  ELSE (IF Usable(ItemValue(Head(d), name)) THEN <<Head(d)>> ELSE <<>>)
       \o UsableRecords(Tail(d), name)

NumberFieldNames(fs) == { fs[i].name : i \in { j \in 1..Len(fs) : fs[j].type = "number" } }

\* The summary without its symbolic square root
Core(summary) ==
  [count |-> summary.count, mean |-> summary.mean, median |-> summary.median,
   min |-> summary.min, max |-> summary.max, variance |-> summary.variance]

\* C1: a key is in the result only if some record has a usable numeric value
\* for it; a field none of whose records has one is absent from the result, and
\* zero records give the empty mapping.
C1_Omission ==
  calls >= 1 =>
    /\ \A name \in DOMAIN stats : UsableAt(data, name) # {}
    /\ \A name \in NumberFieldNames(fields) :
         UsableAt(data, name) = {} => name \notin DOMAIN stats
    /\ data = <<>> => stats = EmptyMap

\* C1 witness: a number field a, records present, none usable, a omitted.
C1_Witness ==
  /\ calls >= 1
  /\ "a" \in NumberFieldNames(fields)
  /\ Len(data) >= 2
  /\ \E i \in 1..Len(data) : "a" \in DOMAIN data[i]
  /\ "a" \notin DOMAIN stats

\* C2: records whose value is missing or not numeric are left out: count is
\* the number of records with a usable value, and the summary is the summary
\* of those records alone.
C2_Exclusion ==
  calls >= 1 =>
    \A name \in DOMAIN stats :
      /\ stats[name].count = Cardinality(UsableAt(data, name))
      /\ LET rest == calculateStatistics(UsableRecords(data, name), fields)
         IN  name \in DOMAIN rest /\ Core(rest[name]) = Core(stats[name])

\* C2 witness: three records, one of them with a non-numeric string under a,
\* and a count of 2.
C2_Witness ==
  /\ calls >= 1
  /\ Len(data) = 3
  /\ "a" \in DOMAIN stats
  /\ stats["a"].count = 2
  /\ \E i \in 1..3 : ItemValue(data[i], "a") = Str(<<"o", "o", "p", "s">>)

\* The ascending arrangement of v
Ascending(v) ==
  CHOOSE srt \in PermutationsOf(v) :
    \A i \in 1..(Len(srt) - 1) : Leq(srt[i], srt[i + 1])

\* C3: the median is taken on the values in ascending order: the middle
\* element for an odd count, the mean of the two middle elements for an even one.
C3_Median ==
  calls >= 1 =>
    \A name \in DOMAIN stats :
      LET srt == Ascending(FieldValues(data, name))
          n   == Len(srt)
      IN  stats[name].median =
            IF n % 2 = 1 THEN srt[(n \div 2) + 1]
            ELSE DivInt(Add(srt[n \div 2], srt[(n \div 2) + 1]), 2)

\* C3 witness: an even number of values, given in descending order, whose
\* median is none of them.
C3_Witness ==
  /\ calls >= 1
  /\ "a" \in DOMAIN stats
  /\ stats["a"].count = 2
  /\ Len(data) = 2
  /\ Lt(parseFloat(ItemValue(data[2], "a")), parseFloat(ItemValue(data[1], "a")))
  /\ Lt(stats["a"].min, stats["a"].median)
  /\ Lt(stats["a"].median, stats["a"].max)

RECURSIVE IntSum(_)
IntSum(v) == IF v = <<>> THEN 0 ELSE Head(v).n + IntSum(Tail(v))

RECURSIVE IntSumSq(_)
IntSumSq(v) == IF v = <<>> THEN 0 ELSE Head(v).n * Head(v).n + IntSumSq(Tail(v))

\* C4: for integer values the variance is the population variance:
\* n * n * variance = n * sum(x^2) - (sum x)^2, and 0 for a single value.
C4_PopulationVariance ==
  calls >= 1 =>
    \A name \in DOMAIN stats :
      LET v   == FieldValues(data, name)
          n   == Len(v)
          var == stats[name].variance
      IN  (\A i \in 1..n : v[i].d = 1) =>
            /\ IsFinite(var)
            /\ n * n * var.n = (n * IntSumSq(v) - IntSum(v) * IntSum(v)) * var.d
            /\ n = 1 => var = FromInt(0)

\* C4 witness: three integer values whose variance is not an integer.
C4_Witness ==
  /\ calls >= 1
  /\ "a" \in DOMAIN stats
  /\ stats["a"].count = 3
  /\ IsFinite(stats["a"].variance)
  /\ stats["a"].variance.d = 9

\* C5: every summary has min <= median <= max, min <= mean <= max,
\* count >= 1 and variance >= 0.
C5_Ordering ==
  calls >= 1 =>
    \A name \in DOMAIN stats :
      /\ Leq(stats[name].min, stats[name].median)
      /\ Leq(stats[name].median, stats[name].max)
      /\ Leq(stats[name].min, stats[name].mean)
      /\ Leq(stats[name].mean, stats[name].max)
      /\ stats[name].count >= 1
      /\ Leq(FromInt(0), stats[name].variance)

\* C6: a call on a permutation of the records returns what the call on the
\* records returned.
C6_OrderIndependence == (calls >= 2 /\ reordered) => stats = prevStats

\* C6 witness: two calls with the records permuted in between, on at least
\* two different values.
C6_Witness ==
  /\ calls >= 2
  /\ reordered
  /\ "a" \in DOMAIN stats
  /\ stats["a"].count >= 3
  /\ Lt(stats["a"].min, stats["a"].median)

Restrict(r, K) == [k \in DOMAIN r \cap K |-> r[k]]

\* C8: every key of the result names a field of type number; keys of the
\* records that name no field do not influence the result.
C8_NumberFieldsOnly ==
  calls >= 1 =>
    /\ DOMAIN stats \subseteq NumberFieldNames(fields)
    /\ LET K == { fields[i].name : i \in 1..Len(fields) }
       IN  stats = calculateStatistics([i \in 1..Len(data) |-> Restrict(data[i], K)],
                                       fields)
    /\ NumberFieldNames(fields) = {} => stats = EmptyMap

\* C8 witness: a select field b whose value parses as a number is not
\* summarized while the number field a is.
C8_Witness ==
  /\ calls >= 1
  /\ \E i \in 1..Len(fields) : fields[i].name = "b" /\ fields[i].type = "select"
  /\ \E i \in 1..Len(data) : Usable(ItemValue(data[i], "b"))
  /\ "a" \in DOMAIN stats
  /\ "b" \notin DOMAIN stats

\* ------------------------------------------------- properties of the entry form and store
\* A value that is absent or empty
AbsentOrEmpty(x) ==
  \/ x.t \in {"undefined", "null"}
  \/ x.t = "string" /\ x.s = <<>>

\* The indices of the required fields of fs that have no value in fd
FailingRequired(fs, fd) ==
  { i \in 1..Len(fs) : fs[i].required /\ AbsentOrEmpty(ItemValue(fd, fs[i].name)) }

\* The least element of a non-empty set of numbers
Least(S) == CHOOSE i \in S : \A j \in S : i <= j

C10_StoredRecordsValid ==
  \A e \in entries :
    /\ e.schemaId \in DOMAIN schemas
    /\ FailingRequired(schemas[e.schemaId], e.data) = {}

\* The text the user entered for the field called name, '' when none
TypedText(name) == IF name \in DOMAIN typed THEN typed[name] ELSE <<>>

\* The field of the selected schema called name
FieldNamed(name) ==
  schemas[schema][CHOOSE i \in 1..Len(schemas[schema]) : schemas[schema][i].name = name]

\* C11: a submission is rejected for a required field only when the field's
\* coerced value is absent or empty; a number field whose text parses to a
\* finite number, 0 included, counts as present.
C11_ParseableNumberIsPresent ==
  alert.kind = "required" =>
    IF FieldNamed(alert.field).type = "number"
      THEN ~IsFinite(parseFloat(Str(TypedText(alert.field))))
      ELSE TypedText(alert.field) = <<>>

\* The strings of the sequence opts, as a set
OptionSet(opts) == { opts[i] : i \in 1..Len(opts) }

\* C12: every stored record's value for a select field, when one was supplied,
\* is one of the field's options, whichever way the record was submitted.
C12_StoredSelectValuesAreOptions ==
  \A e \in entries :
    e.schemaId \in DOMAIN schemas =>
      \A i \in 1..Len(schemas[e.schemaId]) :
        LET field == schemas[e.schemaId][i]
            value == ItemValue(e.data, field.name)
        IN  (field.type = "select" /\ ~AbsentOrEmpty(value)) =>
              (value.t = "string" /\ value.s \in OptionSet(field.options))

\* The field descriptors the designer lists, has in flight or has created
DesignedFields ==
  { designFields[i] : i \in 1..Len(designFields) }
    \cup { posting.fields[i] : i \in 1..Len(posting.fields) }
    \cup UNION { { created[k].fields[i] : i \in 1..Len(created[k].fields) } :
                 k \in 1..Len(created) }

\* C13: every field descriptor of the designer's list and of a created schema
\* has a non-empty options list if and only if its type is select, and no
\* options at all when its type is text, number or date.
C13_OptionsIffSelect ==
  \A f \in DesignedFields :
    /\ f.type = "select" <=> ("options" \in DOMAIN f /\ f.options # <<>>)
    /\ f.type # "select" => "options" \notin DOMAIN f

\* C14: every created schema has a non-empty name, and its fields have
\* non-empty names that differ from one another.
C14_NamesNonEmptyAndUnique ==
  \A k \in 1..Len(created) :
    /\ created[k].name # ""
    /\ \A i \in 1..Len(created[k].fields) : created[k].fields[i].name # ""
    /\ \A i, j \in 1..Len(created[k].fields) :
         created[k].fields[i].name = created[k].fields[j].name => i = j

\* The data of the rows of table with schemaId id, in the order of their ids
RECURSIVE DataById(_, _)
DataById(table, id) ==
  LET own == { e \in table : e.schemaId = id }
  IN  IF own = {} THEN <<>>
      ELSE LET last == CHOOSE e \in own : \A o \in own : o.id <= e.id
           IN  Append(DataById(table \ {last}, id), last.data)

\* C15: a statistics request for an id that names no stored schema is
\* answered 404 'Schema not found', never with a summary mapping; a request
\* for a stored schema that has no entries is answered with the empty mapping.
C15_UnknownSchema ==
  [][(reading.open /\ ~reading'.open) =>
       IF reading.id \notin DOMAIN schemas
         THEN /\ response'.status = 404
              /\ response'.body = [error |-> "Schema not found"]
         ELSE /\ response'.status = 200
              /\ (\A e \in reading.table : e.schemaId # reading.id)
                   => response'.body = EmptyMap]_vars

\* C15 witness: with entries stored for the schemas that exist, a request for
\* an id that names none has been answered 404.
C15_Witness ==
  /\ ~reading.open
  /\ response.kind = "statistics"
  /\ response.id = reading.id
  /\ response.id \notin DOMAIN schemas
  /\ response.status = 404
  /\ reading.table # {}

\* C16: the statistics answered for schema S are calculateStatistics of S's
\* field list and of the data of exactly the entries stored with schemaId S
\* when the handler read the table, whatever was created or deleted before.
C16_FreshStatistics ==
  [][(reading.open /\ ~reading'.open /\ reading.id \in DOMAIN schemas) =>
       /\ response'.id = reading.id
       /\ response'.status = 200
       /\ response'.body =
            calculateStatistics(DataById(reading.table, reading.id),
                                schemas[reading.id])]_vars

\* C16 witness: statistics were answered from a table that held entries of the
\* schema and of another schema, after an entry had been deleted.
C16_Witness ==
  /\ ~reading.open
  /\ response.kind = "statistics"
  /\ response.id = reading.id
  /\ response.status = 200
  /\ response.body # EmptyMap
  /\ \E e \in reading.table : e.schemaId # reading.id
  /\ Cardinality(reading.table) < nextId - 1

\* C17: whenever no statistics request is in flight and loading is false, the
\* statistics in state are the response to the request for the schema.id now
\* selected.
C17_StatisticsOfSelectedSchema ==
  (fetches >= 1 /\ inflight = {} /\ ~loading) => statistics = ResponseData(schema)

\* C18: loading is true while any statistics request is still in flight.
C18_LoadingWhileInFlight == inflight # {} => loading

=============================================================================
